---- MODULE Spec2Model ----
(***************************************************************************)
(* Bootstrap of the desktop host: src-tauri/src/main.rs (main) and         *)
(* src-tauri/src/lib.rs (greet, tauri_generate_context, ext_mod).          *)
(*                                                                         *)
(* main resolves the Python environment, hands it with the entry script    *)
(* and the extension-module hook to PythonInterpreterBuilder, builds the   *)
(* interpreter, runs it and exits with the code run() returned.            *)
(*                                                                         *)
(* pytauri, pyo3 and tauri are external crates.  Where main.rs and lib.rs  *)
(* do not determine what they do (when the hook closure is called, which   *)
(* code run() returns for which script outcome) the model leaves the       *)
(* choice open.                                                            *)
(***************************************************************************)
EXTENDS Naturals, Integers, Sequences, FiniteSets, TLC

VARIABLES
    devMode,      \* cfg!(dev), fixed at compile time
    pc,           \* position of main
    venvRead,     \* what var("VIRTUAL_ENV") returned, "notread" before
    rawDir,       \* what resource_dir(..) returned, NotReadDir before
    py_env,       \* the local py_env of main
    builder,      \* the PythonInterpreterBuilder of main.rs:37
    interpreter,  \* "none", "live" (built), "consumed" (run called)
    hookInvoked,  \* the closure |py| wrap_pymodule!(ext_mod)(py) has run
    mainErr,      \* the message of the Err main returns, Nothing otherwise
    stderr,       \* what the Rust runtime printed for that Err
    resolveCount, \* times the environment was resolved
    buildCount,   \* times builder.build() was called
    buildResult,  \* "none", or "Ok" / "Err" as builder.build() returned
    runCount,     \* times interpreter.run() was called
    scriptState,  \* entry script tauri_app: "notstarted", "running", "completed", "failed"
    runReturn,    \* Some(value returned by interpreter.run())
    exitStatus,   \* Some(status the process terminated with)
    ctxLog,       \* results of tauri_generate_context(), in call order
    builders,     \* heap of tauri builders handed out by builder_factory
    retLog,       \* what each builder_factory call returned, in call order
    greetIn,      \* argument of the last greet command
    greetOut      \* Some(its result)

mainVars == <<devMode, pc, venvRead, rawDir, py_env, builder, interpreter,
              hookInvoked, mainErr, stderr, resolveCount, buildCount,
              buildResult, runCount, scriptState, runReturn, exitStatus>>
modVars == <<ctxLog, builders, retLog>>
greetVars == <<greetIn, greetOut>>
vars == <<mainVars, modVars, greetVars>>

\* Absent values: an unset record, and the empty sequence for an Option.
None == [tag |-> "None"]
Nothing == <<>>
Some(x) == <<x>>

\* ---------------------------------------------------------------- bounds
MaxBuilders == 2
MaxCtxCalls == 2
MaxNameLen == 3

\* ------------------------------------------------------------ value sets
Unset == "NotPresent"
NotUnicode == "NotUnicode"
VenvPaths == {"/home/dev/.venv", "C:\\proj\\.venv"}
EnvValues == {Unset, NotUnicode} \cup VenvPaths

NotReadDir == [ok |-> FALSE, err |-> "notread"]
ResourceDirErr == [ok |-> FALSE, err |-> "UnknownProgramPath"]
RawDirs == [ok : {TRUE}, verbatim : BOOLEAN, legacySafe : BOOLEAN]
ResourceDirResults == {ResourceDirErr} \cup RawDirs

ExitCodes == {0, 1, 2}
ArgChoices == {[args |-> <<>>, kwargs |-> <<>>], [args |-> <<"x">>, kwargs |-> <<"k">>]}
ExtraPlugins == {"shell"}

\* ------------------------------------------------------- lib.rs: greet
\* A string is the sequence of its characters.
Alphabet == {"W", "%", "s", "{", "}"}
World == <<"W", "o", "r", "l", "d">>

RECURSIVE StrsOfLen(_)
StrsOfLen(n) ==
    IF n = 0 THEN {<<>>}
    ELSE {Append(s, c) : s \in StrsOfLen(n - 1), c \in Alphabet}

Names == UNION {StrsOfLen(n) : n \in 0..MaxNameLen} \cup {World}

\* The format string literal of lib.rs:6.
GreetTemplate ==
    <<"H", "e", "l", "l", "o", ",", " ", "{", "}", "!", " ",
      "Y", "o", "u", "'", "v", "e", " ", "b", "e", "e", "n", " ",
      "g", "r", "e", "e", "t", "e", "d", " ", "f", "r", "o", "m", " ",
      "R", "u", "s", "t", "!">>

\* format!: the literal is scanned once; "{}" takes the next argument and
\* writes it with Display (for &str: its characters, unscanned), "{{" and
\* "}}" write one brace, every other character writes itself.
RECURSIVE FormatFrom(_, _, _, _)
FormatFrom(tpl, i, args, k) ==
    IF i > Len(tpl) THEN <<>>
    ELSE IF i < Len(tpl) /\ tpl[i] = "{" /\ tpl[i + 1] = "}"
        THEN (IF k <= Len(args) THEN args[k] ELSE <<>>)
             \o FormatFrom(tpl, i + 2, args, k + 1)
    ELSE IF i < Len(tpl) /\ tpl[i] = "{" /\ tpl[i + 1] = "{"
        THEN <<"{">> \o FormatFrom(tpl, i + 2, args, k)
    ELSE IF i < Len(tpl) /\ tpl[i] = "}" /\ tpl[i + 1] = "}"
        THEN <<"}">> \o FormatFrom(tpl, i + 2, args, k)
    ELSE <<tpl[i]>> \o FormatFrom(tpl, i + 1, args, k)

Format(tpl, args) == FormatFrom(tpl, 1, args, 1)

\* A greet that splices the name into the format string and scans the
\* result: braces of the name become directives.
greet_spliced(name) ==
    Format(SubSeq(GreetTemplate, 1, 7) \o name
           \o SubSeq(GreetTemplate, 10, Len(GreetTemplate)), <<>>)

greet(name) == Format(GreetTemplate, <<name>>)

\* ------------------------------------- lib.rs: the two exported factories
\* tauri::generate_context!(): the context compiled into the binary.
CompiledContext == [package |-> "agno_desktop", generation |-> 0]

\* A context that is rebuilt from a counter of earlier calls.
tauri_generate_context_counted ==
    [CompiledContext EXCEPT !.generation = Len(ctxLog)]

tauri_generate_context == CompiledContext

context_factory(args, kwargs) == tauri_generate_context

BuilderDefault == [plugins |-> {}, commands |-> {}, state |-> "fresh"]
WithPlugin(b, p) == [b EXCEPT !.plugins = @ \cup {p}]
WithInvokeHandler(b, cmds) == [b EXCEPT !.commands = cmds]

builder_factory(args, kwargs) ==
    WithInvokeHandler(WithPlugin(BuilderDefault, "opener"), {"greet"})

\* ------------------------------------------------- main.rs: environment
\* dunce::simplified: drops the verbatim prefix of a path when the path
\* is expressible without it, and leaves every other path alone.
simplified_noop(p) == p

simplified(p) ==
    IF p.verbatim /\ p.legacySafe THEN [p EXCEPT !.verbatim = FALSE] ELSE p

Venv(path) == [tag |-> "Venv", path |-> path]
Standalone(path) == [tag |-> "Standalone", path |-> path]

VenvErrMsg_unnamed(err) ==
    <<"The app is running in tauri dev mode,",
      "please activate the python virtual environment first:", err>>

VenvErrMsg(err) ==
    <<"The app is running in tauri dev mode,",
      "please activate the python virtual environment first",
      "or set the", "VIRTUAL_ENV", "environment variable:", err>>

ResourceDirErrMsg(err) == <<"failed to get resource dir:", err>>

PyScript == [tag |-> "Module", name |-> "tauri_app"]

Range(f) == {f[i] : i \in DOMAIN f}

\* ------------------------------------------------------------- main.rs
Init ==
    /\ devMode \in BOOLEAN
    /\ pc = "start"
    /\ venvRead = "notread"
    /\ rawDir = NotReadDir
    /\ py_env = None
    /\ builder = None
    /\ interpreter = "none"
    /\ hookInvoked = FALSE
    /\ mainErr = Nothing
    /\ stderr = Nothing
    /\ resolveCount = 0
    /\ buildCount = 0
    /\ buildResult = "none"
    /\ runCount = 0
    /\ scriptState = "notstarted"
    /\ runReturn = Nothing
    /\ exitStatus = Nothing
    /\ ctxLog = <<>>
    /\ builders = <<>>
    /\ retLog = <<>>
    /\ greetIn = <<>>
    /\ greetOut = Nothing

\* main.rs:16-24, cfg!(dev): v is what var("VIRTUAL_ENV") gives.
ResolveDev(v) ==
    /\ pc = "start"
    /\ devMode
    /\ venvRead' = v
    /\ resolveCount' = resolveCount + 1
    /\ IF v \in VenvPaths
         THEN /\ py_env' = Venv(v)
              /\ pc' = "resolved"
              /\ UNCHANGED mainErr
         ELSE /\ mainErr' = VenvErrMsg(v)
              /\ pc' = "main_err"
              /\ UNCHANGED py_env
    /\ UNCHANGED <<devMode, rawDir, builder, interpreter, hookInvoked, stderr,
                   buildCount, buildResult, runCount, scriptState, runReturn, exitStatus>>
    /\ UNCHANGED <<modVars, greetVars>>

\* main.rs:25-30, not cfg!(dev): r is what resource_dir(..) gives.
ResolveStandalone(r) ==
    /\ pc = "start"
    /\ ~devMode
    /\ ctxLog' = Append(ctxLog, [by |-> "main", args |-> <<>>, kwargs |-> <<>>,
                                 value |-> tauri_generate_context])
    /\ rawDir' = r
    /\ resolveCount' = resolveCount + 1
    /\ IF r \in RawDirs
         THEN /\ py_env' = Standalone(simplified(r))
              /\ pc' = "resolved"
              /\ UNCHANGED mainErr
         ELSE /\ mainErr' = ResourceDirErrMsg(r.err)
              /\ pc' = "main_err"
              /\ UNCHANGED py_env
    /\ UNCHANGED <<devMode, venvRead, builder, interpreter, hookInvoked, stderr,
                   buildCount, buildResult, runCount, scriptState, runReturn, exitStatus>>
    /\ UNCHANGED <<builders, retLog, greetVars>>

\* main.rs:34-37: the builder takes py_env, the script and the hook closure.
NewBuilder ==
    /\ pc = "resolved"
    /\ builder' = [env |-> py_env, script |-> PyScript, ext_mod |-> "ext_mod"]
    /\ pc' = "builder"
    /\ UNCHANGED <<devMode, venvRead, rawDir, py_env, interpreter, hookInvoked,
                   mainErr, stderr, resolveCount, buildCount, buildResult, runCount,
                   scriptState, runReturn, exitStatus>>
    /\ UNCHANGED <<modVars, greetVars>>

\* A build whose error is dropped instead of propagated by `?`.
Build_unchecked(ok, h) ==
    /\ pc = "builder"
    /\ buildCount' = buildCount + 1
    /\ buildResult' = IF ok THEN "Ok" ELSE "Err"
    /\ hookInvoked' = h
    /\ interpreter' = "live"
    /\ pc' = "built"
    /\ UNCHANGED <<devMode, venvRead, rawDir, py_env, builder, mainErr, stderr,
                   resolveCount, runCount, scriptState, runReturn, exitStatus>>
    /\ UNCHANGED <<modVars, greetVars>>

\* main.rs:38, builder.build()?: ok is whether it returns Ok; h is whether
\* the external build() called the hook closure it was given.
Build(ok, h) ==
    /\ pc = "builder"
    /\ buildCount' = buildCount + 1
    /\ buildResult' = IF ok THEN "Ok" ELSE "Err"
    /\ hookInvoked' = h
    /\ IF ok
         THEN /\ interpreter' = "live"
              /\ pc' = "built"
              /\ UNCHANGED mainErr
         ELSE /\ mainErr' = <<"PyErr">>
              /\ pc' = "main_err"
              /\ UNCHANGED interpreter
    /\ UNCHANGED <<devMode, venvRead, rawDir, py_env, builder, stderr,
                   resolveCount, runCount, scriptState, runReturn, exitStatus>>
    /\ UNCHANGED <<modVars, greetVars>>

\* main.rs:40, interpreter.run() is entered: the interpreter is given away
\* and the entry script starts; h is whether run() calls the hook first.
Run(h) ==
    /\ pc = "built"
    /\ interpreter = "live"
    /\ interpreter' = "consumed"
    /\ runCount' = runCount + 1
    /\ hookInvoked' = (hookInvoked \/ h)
    /\ scriptState' = "running"
    /\ pc' = "running"
    /\ UNCHANGED <<devMode, venvRead, rawDir, py_env, builder, mainErr, stderr,
                   resolveCount, buildCount, buildResult, runReturn, exitStatus>>
    /\ UNCHANGED <<modVars, greetVars>>

\* lib.rs:25, the script calls ext_mod's context_factory.
CallContextFactory(a) ==
    /\ scriptState = "running"
    /\ hookInvoked
    /\ Len(SelectSeq(ctxLog, LAMBDA e : e.by = "script")) < MaxCtxCalls
    /\ ctxLog' = Append(ctxLog, [by |-> "script", args |-> a.args,
                                 kwargs |-> a.kwargs,
                                 value |-> context_factory(a.args, a.kwargs)])
    /\ UNCHANGED <<mainVars, builders, retLog, greetVars>>

\* A factory that hands out one cached builder.
CallBuilderFactory_cached(a) ==
    /\ scriptState = "running"
    /\ hookInvoked
    /\ Len(retLog) < MaxBuilders
    /\ builders' = IF builders = <<>>
                     THEN <<builder_factory(a.args, a.kwargs)>>
                     ELSE builders
    /\ retLog' = Append(retLog, [id |-> 1, args |-> a.args, kwargs |-> a.kwargs,
                                 plugins |-> builders'[1].plugins,
                                 commands |-> builders'[1].commands])
    /\ UNCHANGED <<mainVars, ctxLog, greetVars>>

\* lib.rs:27-32, the script calls ext_mod's builder_factory: a builder is
\* constructed and moved to the caller.
CallBuilderFactory(a) ==
    /\ scriptState = "running"
    /\ hookInvoked
    /\ Len(retLog) < MaxBuilders
    /\ builders' = Append(builders, builder_factory(a.args, a.kwargs))
    /\ retLog' = Append(retLog, [id |-> Len(builders) + 1, args |-> a.args,
                                 kwargs |-> a.kwargs,
                                 plugins |-> builders'[Len(builders) + 1].plugins,
                                 commands |-> builders'[Len(builders) + 1].commands])
    /\ UNCHANGED <<mainVars, ctxLog, greetVars>>

\* The script adds a plugin to a builder it holds.
AddPlugin(b, p) ==
    /\ scriptState = "running"
    /\ b \in DOMAIN builders
    /\ builders[b].state = "fresh"
    /\ p \notin builders[b].plugins
    /\ builders' = [builders EXCEPT ![b] = WithPlugin(@, p)]
    /\ UNCHANGED <<mainVars, ctxLog, retLog, greetVars>>

\* The script builds the app from a builder, which consumes the builder.
BuildApp(b) ==
    /\ scriptState = "running"
    /\ b \in DOMAIN builders
    /\ builders[b].state = "fresh"
    /\ builders' = [builders EXCEPT ![b].state = "consumed"]
    /\ UNCHANGED <<mainVars, ctxLog, retLog, greetVars>>

\* The entry script ends: it completes, or an exception escapes it.
ScriptEnd(outcome) ==
    /\ scriptState = "running"
    /\ scriptState' = outcome
    /\ UNCHANGED <<devMode, pc, venvRead, rawDir, py_env, builder, interpreter,
                   hookInvoked, mainErr, stderr, resolveCount, buildCount, buildResult,
                   runCount, runReturn, exitStatus>>
    /\ UNCHANGED <<modVars, greetVars>>

\* main.rs:40, interpreter.run() returns exit_code.
RunReturn(code) ==
    /\ pc = "running"
    /\ scriptState \in {"completed", "failed"}
    /\ runReturn' = Some(code)
    /\ pc' = "returned"
    /\ UNCHANGED <<devMode, venvRead, rawDir, py_env, builder, interpreter,
                   hookInvoked, mainErr, stderr, resolveCount, buildCount, buildResult,
                   runCount, scriptState, exitStatus>>
    /\ UNCHANGED <<modVars, greetVars>>

\* An exit that reports success whatever run() returned.
Exit_zero ==
    /\ pc = "returned"
    /\ exitStatus' = Some(0)
    /\ pc' = "exited"
    /\ UNCHANGED <<devMode, venvRead, rawDir, py_env, builder, interpreter,
                   hookInvoked, mainErr, stderr, resolveCount, buildCount, buildResult,
                   runCount, scriptState, runReturn>>
    /\ UNCHANGED <<modVars, greetVars>>

\* main.rs:41, std::process::exit(exit_code).
Exit ==
    /\ pc = "returned"
    /\ exitStatus' = runReturn
    /\ pc' = "exited"
    /\ UNCHANGED <<devMode, venvRead, rawDir, py_env, builder, interpreter,
                   hookInvoked, mainErr, stderr, resolveCount, buildCount, buildResult,
                   runCount, scriptState, runReturn>>
    /\ UNCHANGED <<modVars, greetVars>>

\* A main that starts over after an error.
MainErrReturn_retry ==
    /\ pc = "main_err"
    /\ stderr' = <<"Error:">> \o mainErr
    /\ pc' = IF builder = None THEN "start" ELSE "builder"
    /\ UNCHANGED <<devMode, venvRead, rawDir, py_env, builder, interpreter,
                   hookInvoked, mainErr, resolveCount, buildCount, buildResult, runCount,
                   scriptState, runReturn, exitStatus>>
    /\ UNCHANGED <<modVars, greetVars>>

\* main.rs:14,23,28,38: `?` returns the Err from main; the Rust runtime
\* prints it to stderr and the process ends with the failure status 1.
MainErrReturn ==
    /\ pc = "main_err"
    /\ stderr' = <<"Error:">> \o mainErr
    /\ exitStatus' = Some(1)
    /\ pc' = "exited"
    /\ UNCHANGED <<devMode, venvRead, rawDir, py_env, builder, interpreter,
                   hookInvoked, mainErr, resolveCount, buildCount, buildResult, runCount,
                   scriptState, runReturn>>
    /\ UNCHANGED <<modVars, greetVars>>

Next ==
    \/ \E v \in EnvValues : ResolveDev(v)
    \/ \E r \in ResourceDirResults : ResolveStandalone(r)
    \/ NewBuilder
    \/ \E ok \in BOOLEAN, h \in BOOLEAN : Build(ok, h)
    \/ \E h \in BOOLEAN : Run(h)
    \/ \E a \in ArgChoices : CallContextFactory(a)
    \/ \E a \in ArgChoices : CallBuilderFactory(a)
    \/ \E b \in 1..MaxBuilders, p \in ExtraPlugins : AddPlugin(b, p)
    \/ \E b \in 1..MaxBuilders : BuildApp(b)
    \/ \E o \in {"completed", "failed"} : ScriptEnd(o)
    \/ \E c \in ExitCodes : RunReturn(c)
    \/ Exit
    \/ MainErrReturn

Spec == Init /\ [][Next]_vars

\* ------------------------------------------- the greet command, lib.rs:4-7
\* The app of a dev-mode run is up (one builder built into it) and its
\* invoke handler receives the command greet with some name.
GreetInit ==
    /\ devMode = TRUE
    /\ pc = "running"
    /\ venvRead = "/home/dev/.venv"
    /\ rawDir = NotReadDir
    /\ py_env = Venv("/home/dev/.venv")
    /\ builder = [env |-> py_env, script |-> PyScript, ext_mod |-> "ext_mod"]
    /\ interpreter = "consumed"
    /\ hookInvoked = TRUE
    /\ mainErr = Nothing
    /\ stderr = Nothing
    /\ resolveCount = 1
    /\ buildCount = 1
    /\ buildResult = "Ok"
    /\ runCount = 1
    /\ scriptState = "running"
    /\ runReturn = Nothing
    /\ exitStatus = Nothing
    /\ ctxLog = <<>>
    /\ builders = <<[builder_factory(<<>>, <<>>) EXCEPT !.state = "consumed"]>>
    /\ retLog = <<[id |-> 1, args |-> <<>>, kwargs |-> <<>>,
                   plugins |-> {"opener"}, commands |-> {"greet"}]>>
    /\ greetIn \in Names
    /\ greetOut = Nothing

InvokeGreet ==
    /\ scriptState = "running"
    /\ \E b \in DOMAIN builders :
          builders[b].state = "consumed" /\ "greet" \in builders[b].commands
    /\ greetOut = Nothing
    /\ greetOut' = Some(greet(greetIn))
    /\ UNCHANGED <<mainVars, modVars, greetIn>>

GreetNext == InvokeGreet

GreetSpec == GreetInit /\ [][GreetNext]_vars

\* ================================================================ claims
\* C1 (hook installed before the entry script starts) and C7 (an unhandled
\* script failure gives a non-zero code after its detail is printed) are
\* about what happens inside build() and run() of the external pytauri
\* crate.  main.rs fixes only that the hook is handed over before build()
\* and that the code of run() is passed on, so Build, Run and RunReturn
\* leave those choices open and no formula is stated for the two claims.

\* C2: in development mode with VIRTUAL_ENV unset, resolution fails with a
\* message that names VIRTUAL_ENV, the process exits non-zero, and the hook
\* is never invoked, no builder or interpreter exists and the entry script
\* never runs.
DevUnsetFailsBeforeBootstrap ==
    (devMode /\ venvRead = Unset) =>
        /\ pc \in {"main_err", "exited"}
        /\ "VIRTUAL_ENV" \in Range(mainErr)
        /\ (pc = "exited" => exitStatus # Nothing /\ exitStatus # Some(0))
        /\ ~hookInvoked
        /\ builder = None
        /\ interpreter = "none"
        /\ buildCount = 0
        /\ runCount = 0
        /\ scriptState = "notstarted"

DevUnsetExited ==
    devMode /\ venvRead = Unset /\ pc = "exited" /\ stderr # Nothing

\* C3: after a successful build and run the process ends with exactly the
\* code interpreter.run() returned, and the only host step after run()
\* returns is the exit itself, which changes nothing else.
ExitsWithRunCode ==
    /\ [](pc = "exited" /\ runCount = 1 =>
            runReturn # Nothing /\ exitStatus = runReturn)
    /\ [][pc = "returned" =>
            /\ pc' = "exited"
            /\ exitStatus' = runReturn
            /\ UNCHANGED <<devMode, venvRead, rawDir, py_env, builder,
                           interpreter, hookInvoked, mainErr, stderr,
                           resolveCount, buildCount, buildResult, runCount,
                           scriptState, runReturn, modVars, greetVars>>]_vars

StandaloneExitedZero ==
    /\ ~devMode
    /\ rawDir.ok
    /\ scriptState = "completed"
    /\ runReturn = Some(0)
    /\ pc = "exited"
    /\ exitStatus = Some(0)

\* C4: the environment is resolved, the interpreter built and run at most
\* once each, in that order; the built interpreter is given to run and is
\* gone afterwards; the entry script only ever runs inside that one run.
OneRuntimePerProcess ==
    /\ resolveCount <= 1
    /\ buildCount <= resolveCount
    /\ runCount <= buildCount
    /\ (interpreter = "live" <=> buildResult = "Ok" /\ runCount = 0)
    /\ (interpreter = "consumed" <=> runCount = 1)
    /\ (scriptState # "notstarted" => runCount = 1)
    /\ (pc = "start" => resolveCount = 0)
    /\ (pc \in {"resolved", "builder"} => buildCount = 0)

RanOnceAndExited ==
    pc = "exited" /\ runCount = 1 /\ interpreter = "consumed"

\* C5: a bootstrap failure (variable missing or unusable, resource
\* directory not determinable, build returning Err) is fatal: main goes to
\* its error return, nothing is retried, the entry script never starts and
\* the process status is non-zero.
BootFailed ==
    \/ devMode /\ venvRead \in {Unset, NotUnicode}
    \/ ~devMode /\ rawDir = ResourceDirErr
    \/ buildResult = "Err"

BootFailureIsFatal ==
    BootFailed =>
        /\ pc \in {"main_err", "exited"}
        /\ mainErr # Nothing
        /\ resolveCount = 1
        /\ buildCount <= 1
        /\ runCount = 0
        /\ scriptState = "notstarted"
        /\ (pc = "exited" =>
                /\ exitStatus # Nothing
                /\ exitStatus # Some(0)
                /\ stderr = <<"Error:">> \o mainErr)

BuildFailedExited ==
    buildResult = "Err" /\ pc = "exited" /\ exitStatus = Some(1)

HelloPrefix == <<"H", "e", "l", "l", "o", ",", " ">>
GreetedSuffix ==
    <<"!", " ", "Y", "o", "u", "'", "v", "e", " ", "b", "e", "e", "n", " ",
      "g", "r", "e", "e", "t", "e", "d", " ", "f", "r", "o", "m", " ",
      "R", "u", "s", "t", "!">>

GreetIsConcatenation ==
    greetOut # Nothing =>
        greetOut[1] = HelloPrefix \o greetIn \o GreetedSuffix

GreetedBraces ==
    greetOut # Nothing /\ greetIn = <<"{", "}">>

\* C9: the builders returned by builder_factory are pairwise distinct
\* objects, each returned with the commands {greet} and the plugin opener
\* whatever the arguments and whatever was done to builders returned
\* earlier.
BuildersDistinctAndEqual ==
    /\ \A i \in DOMAIN retLog :
          /\ retLog[i].id \in DOMAIN builders
          /\ "greet" \in retLog[i].commands
          /\ "greet" \in builders[retLog[i].id].commands
    /\ \A i, j \in DOMAIN retLog :
          i # j =>
             /\ retLog[i].id # retLog[j].id
             /\ retLog[i].commands = retLog[j].commands
             /\ retLog[i].plugins = retLog[j].plugins

TwoBuildersOneChanged ==
    /\ Len(retLog) = 2
    /\ retLog[1].args # retLog[2].args
    /\ builders[1].plugins = {"opener", "shell"}
    /\ builders[1].state = "consumed"
    /\ builders[2].plugins = {"opener"}
    /\ builders[2].state = "fresh"

====
